---- MODULE Spec2Model ----
(***************************************************************************)
(* Nearest-grid-point lookup of dmidc.harmonie.utils:                      *)
(*   cache_to_pickle, _wrap_lon, sel_nearest_to_latlon_pt.                 *)
(* Longitudes and latitudes are whole degrees; arithmetic is exact.        *)
(***************************************************************************)
EXTENDS Integers, Sequences, FiniteSets, TLC

VARIABLES
    LOOKUP_INFO,   \* utils.py:8, the process-wide dict identifier -> lookup_info
    pickles,       \* the files FP_LOOKUP_INFO_ROOT/<identifier>.pkl, identifier -> lookup_info
    call,          \* the call of sel_nearest_to_latlon_pt just made, with its outcome
    wl,            \* the frame of a running _wrap_lon: its arguments, locals and position
    th             \* the threads inside sel_nearest_to_latlon_pt at the same time, their
                   \* frames and the order of their writes to LOOKUP_INFO

vars == <<LOOKUP_INFO, pickles, call, wl, th>>

----------------------------------------------------------------------------
(* Bounds of the model *)

\* query longitudes are base values shifted by up to MaxWraps full turns
MaxWraps == 1
\* _wrap_lon is run on every whole longitude in -MaxLon..MaxLon
MaxLon == 800

----------------------------------------------------------------------------
(* _wrap_lon, utils.py:36-64 *)

\* the 360 of `lon += 360`, `lon -= 360` and of the applied_rotation updates
FullTurn == 360

\* the frame on entry: applied_rotation = 0.0, nothing iterated yet
WrapEnter(lon, lon_bounds) ==
    [lon0 |-> lon, lon_bounds |-> lon_bounds, lon |-> lon,
     applied_rotation |-> 0, iters |-> 0, pc |-> "while"]

\* the `while` test with the endpoints taken as outside the bounds
WrapOutside_Exclusive(f) == f.lon <= f.lon_bounds[1] \/ f.lon >= f.lon_bounds[2]

\* the `while` test of line 52
WrapOutside(f) == f.lon < f.lon_bounds[1] \/ f.lon > f.lon_bounds[2]

\* the rotation bookkeeping of the `lon > lon_bounds[1]` branch (line 62)
RotateDown_Forgotten(rot) == rot

RotateDown(rot) == rot - FullTurn

\* the guard of the `lon < lon_bounds[0]` branch (line 54)
UpGuard_NonStrict(rot) == rot <= 0

UpGuard(rot) == rot < 0

\* the guard of the `lon > lon_bounds[1]` branch with 0 taken as positive
DownGuard_NonStrict(rot) == rot >= 0

\* the guard of the `lon > lon_bounds[1]` branch (line 60)
DownGuard(rot) == rot > 0

\* one evaluation of the `while` test and, when it is true, of the loop body
WrapStep(f) ==
    IF ~WrapOutside(f)
    THEN [f EXCEPT !.pc = "return"]
    ELSE IF f.lon < f.lon_bounds[1]
         THEN IF UpGuard(f.applied_rotation)
              THEN [f EXCEPT !.iters = @ + 1, !.pc = "raise"]
              ELSE [f EXCEPT !.iters = @ + 1,
                             !.lon = @ + FullTurn,
                             !.applied_rotation = @ + FullTurn]
         ELSE \* elif lon > lon_bounds[1]: lon is decremented before the guard
              IF DownGuard(f.applied_rotation)
              THEN [f EXCEPT !.iters = @ + 1, !.lon = @ - FullTurn, !.pc = "raise"]
              ELSE [f EXCEPT !.iters = @ + 1,
                             !.lon = @ - FullTurn,
                             !.applied_rotation = RotateDown(@)]

RECURSIVE WrapRun(_)
WrapRun(f) == IF f.pc = "while" THEN WrapRun(WrapStep(f)) ELSE f

\* _wrap_lon(lon, lon_bounds): the frame when it returns or raises
wrap_lon_fn(lon, lon_bounds) == WrapRun(WrapEnter(lon, lon_bounds))

\* the inputs _wrap_lon is run on
WrapLons == -MaxLon .. MaxLon

WrapBoundsSet ==
    { <<a, a + w>> : a \in {-180, -10, 0, 350},
                     w \in {0, 20, 359, 360, 361, 720} }

NoFrame == [pc |-> "idle"]

NoCall == [pc |-> "idle"]

NoThreads == [frames |-> << >>, stores |-> << >>]

\* the loop, one iteration at a time
WrapLoop ==
    /\ wl.pc = "while"
    /\ wl' = WrapStep(wl)
    /\ UNCHANGED <<LOOKUP_INFO, pickles, call, th>>

InitWrap ==
    /\ LOOKUP_INFO = << >>
    /\ pickles = << >>
    /\ call = NoCall
    /\ th = NoThreads
    /\ wl \in { WrapEnter(lon, b) : lon \in WrapLons, b \in WrapBoundsSet }

NextWrap == WrapLoop

SpecWrap == InitWrap /\ [][NextWrap]_vars /\ WF_vars(WrapLoop)

----------------------------------------------------------------------------
(* Datasets: lon, lat and a data variable over dimensions (x, y) *)

\* grids have 1..MaxDim cells along x and along y
MaxDim == 2

\* a dataset with lon[x, y], lat[x, y], t2m[x, y] of shape (nx, ny); attrs
\* holds suite_name unless the dataset has none
MkDataset(attrs, nx, ny, lon0, lat0) ==
    LET DLon == 20
        DLat == 10
    IN
    [attrs |-> attrs,
     lon |-> [x \in 0 .. nx - 1 |-> [y \in 0 .. ny - 1 |-> lon0 + DLon * x]],
     lat |-> [x \in 0 .. nx - 1 |-> [y \in 0 .. ny - 1 |-> lat0 + DLat * y]],
     t2m |-> [x \in 0 .. nx - 1 |-> [y \in 0 .. ny - 1 |-> 270 + 10 * x + y]]]

Shapes == (1 .. MaxDim) \X (1 .. MaxDim)

Datasets ==
    { MkDataset([suite_name |-> "A"], sh[1], sh[2], -10, 0) : sh \in Shapes }
      \cup { MkDataset([suite_name |-> "B"], 2, 2, 0, 0),
             MkDataset(<< >>, 2, 2, -10, 0) }

\* ds.lon.shape
Shape(arr) == <<Cardinality(DOMAIN arr), Cardinality(DOMAIN arr[0])>>

\* numpy's arr.flatten() of a 2-D array: C order, the last axis varies fastest
Flatten(arr) ==
    LET n0 == Shape(arr)[1]
        n1 == Shape(arr)[2]
    IN  [k \in 0 .. n0 * n1 - 1 |-> arr[k \div n1][k % n1]]

SetMin(S) == CHOOSE m \in S : \A v \in S : m <= v

SetMax(S) == CHOOSE m \in S : \A v \in S : m >= v

ArrValues(arr) == { arr[x][y] : x \in DOMAIN arr, y \in DOMAIN arr[0] }

----------------------------------------------------------------------------
(* build_tree, utils.py:97-106, and the two caches *)

\* build_tree(): the points of the cKDTree in the order they were zipped,
\* and the bounding box
build_tree(ds) ==
    LET lons == Flatten(ds.lon)
        lats == Flatten(ds.lat)
    IN  [tree |-> [k \in DOMAIN lons |-> <<lons[k], lats[k]>>],
         latlon_bounds |->
            [lat |-> <<SetMin(ArrValues(ds.lat)), SetMax(ArrValues(ds.lat))>>,
             lon |-> <<SetMin(ArrValues(ds.lon)), SetMax(ArrValues(ds.lon))>>]]

\* dict assignment d[key] = value
DictSet(d, key, value) == (key :> value) @@ d

\* the wrapper without lines 26-28: the result is built and not dumped
cache_to_pickle_NoDump(identifier, ds, files) ==
    IF identifier \in DOMAIN files
    THEN [result |-> files[identifier], files |-> files,
          pickleLoaded |-> TRUE, built |-> FALSE, pickleWritten |-> FALSE]
    ELSE [result |-> build_tree(ds), files |-> files,
          pickleLoaded |-> FALSE, built |-> TRUE, pickleWritten |-> TRUE]

\* the wrapper of cache_to_pickle (lines 20-29) around build_tree
cache_to_pickle(identifier, ds, files) ==
    IF identifier \in DOMAIN files
    THEN [result |-> files[identifier], files |-> files,
          pickleLoaded |-> TRUE, built |-> FALSE, pickleWritten |-> FALSE]
    ELSE LET result == build_tree(ds)
         IN  [result |-> result, files |-> DictSet(files, identifier, result),
              pickleLoaded |-> FALSE, built |-> TRUE, pickleWritten |-> TRUE]

\* LOOKUP_INFO.setdefault(identifier, lookup_info): the first entry is kept
MemStore_KeepFirst(mem, identifier, lookup_info) ==
    IF identifier \in DOMAIN mem THEN mem ELSE DictSet(mem, identifier, lookup_info)

\* line 112 left out: the built lookup_info is not kept in LOOKUP_INFO
MemStore_Forgotten(mem, identifier, lookup_info) == mem

\* line 112: LOOKUP_INFO[identifier] = lookup_info
MemStore(mem, identifier, lookup_info) == DictSet(mem, identifier, lookup_info)

\* the lookup with a check of the cached entry against ds: an entry of
\* another grid is dropped from both caches and built again
GetLookupInfo_Revalidating(identifier, ds, mem, files) ==
    LET fresh == build_tree(ds)
        memOk == identifier \in DOMAIN mem /\ mem[identifier] = fresh
        fileOk == identifier \in DOMAIN files /\ files[identifier] = fresh
    IN  IF memOk
        THEN [lookup_info |-> fresh, mem |-> mem, files |-> files,
              memHit |-> TRUE, pickleChecked |-> FALSE,
              pickleLoaded |-> FALSE, built |-> FALSE, pickleWritten |-> FALSE]
        ELSE [lookup_info |-> fresh,
              mem |-> DictSet(mem, identifier, fresh),
              files |-> DictSet(files, identifier, fresh),
              memHit |-> FALSE, pickleChecked |-> TRUE,
              pickleLoaded |-> fileOk, built |-> ~fileOk, pickleWritten |-> ~fileOk]

\* lines 108-112: what the lookup does to the caches and which tier served it
GetLookupInfo(identifier, ds, mem, files) ==
    IF identifier \in DOMAIN mem
    THEN [lookup_info |-> mem[identifier], mem |-> mem, files |-> files,
          memHit |-> TRUE, pickleChecked |-> FALSE,
          pickleLoaded |-> FALSE, built |-> FALSE, pickleWritten |-> FALSE]
    ELSE LET c == cache_to_pickle(identifier, ds, files)
         IN  [lookup_info |-> c.result,
              mem |-> MemStore(mem, identifier, c.result), files |-> c.files,
              memHit |-> FALSE, pickleChecked |-> TRUE,
              pickleLoaded |-> c.pickleLoaded, built |-> c.built,
              pickleWritten |-> c.pickleWritten]

----------------------------------------------------------------------------
(* sel_nearest_to_latlon_pt, utils.py:67-142 *)

\* the exceptions the call can end with, named by type and raising line
E_NoSuiteName == "ValueError@90"
E_PtNotDict == "TypeError@93"
E_KeyLon == "KeyError@95:lon"
E_KeyLat == "KeyError@95:lat"
E_WrapUp == "ValueError@55"
E_WrapDown == "ValueError@61"
E_Lon == "ValueError@122"
E_Lat == "ValueError@128"
E_Unbound == "UnboundLocalError@132:lon_wrapped"
E_IndexX == "IndexError@137:x"
E_IndexY == "IndexError@137:y"

\* pt is a dict only when its key set is exactly {lon, lat}
PtError_ExactKeys(pt) ==
    IF pt.kind # "dict" \/ DOMAIN pt.items # {"lon", "lat"} THEN E_PtNotDict ELSE ""

\* lines 92-95: isinstance(pt, dict), then pt["lon"], then pt["lat"]
PtError(pt) ==
    IF pt.kind # "dict" THEN E_PtNotDict
    ELSE IF "lon" \notin DOMAIN pt.items THEN E_KeyLon
    ELSE IF "lat" \notin DOMAIN pt.items THEN E_KeyLat
    ELSE ""

\* pt validated before the suite_name attribute is looked at
EntryError_PtFirst(ds, pt) ==
    IF PtError(pt) # "" THEN PtError(pt)
    ELSE IF "suite_name" \notin DOMAIN ds.attrs THEN E_NoSuiteName
    ELSE ""

\* lines 88-95: ds.attrs.get("suite_name") is None, then the checks of pt
EntryError(ds, pt) ==
    IF "suite_name" \notin DOMAIN ds.attrs THEN E_NoSuiteName ELSE PtError(pt)

\* the latitude test with the endpoints taken as outside the bounds
LatOutside_Exclusive(lat, b) == lat <= b[1] \/ lat >= b[2]

\* line 127
LatOutside(lat, b) == lat < b[1] \/ lat > b[2]

\* line 121
LonOutside(lon, b) == lon < b[1] \/ lon > b[2]

Dist2(p, q) == (p[1] - q[1]) * (p[1] - q[1]) + (p[2] - q[2]) * (p[2] - q[2])

\* lookup_tree.query(q): the index of a point of the tree nearest to q; which
\* of several equally near points is returned is up to the tree
Query(tree, q) ==
    { k \in DOMAIN tree :
        \A m \in DOMAIN tree : Dist2(tree[k], q) <= Dist2(tree[m], q) }

\* the offset added to the longitude instead of subtracted
CorrectLon_Added(lon, applied_lon_offset) == lon + applied_lon_offset

\* line 140: ds_point["lon"] - applied_lon_offset
CorrectLon(lon, applied_lon_offset) == lon - applied_lon_offset

\* ds.isel(x=i, y=j) of line 137, for indices within range
isel(ds, i, j) == [lon |-> ds.lon[i][j], lat |-> ds.lat[i][j], t2m |-> ds.t2m[i][j]]

\* line 134: i, j = idx_nearest % ny, idx_nearest // ny
Unravel(idx_nearest, ny) == <<idx_nearest % ny, idx_nearest \div ny>>

\* lines 132-142, from the query on; locals holds lon_wrapped only if line
\* 118 assigned it
QueryAndSlice(ds, wrap_lon, locals) ==
    IF "lon_wrapped" \notin DOMAIN locals
    THEN { [raised |-> E_Unbound, locals |-> locals] }
    ELSE
      { LET sh == Shape(ds.lon)
            nx == sh[1]
            ny == sh[2]
            i == Unravel(idx_nearest, ny)[1]
            j == Unravel(idx_nearest, ny)[2]
            l1 == [idx_nearest |-> idx_nearest, nx |-> nx, ny |-> ny,
                   i |-> i, j |-> j] @@ locals
        IN  IF i \notin 0 .. nx - 1 THEN [raised |-> E_IndexX, locals |-> l1]
            ELSE IF j \notin 0 .. ny - 1 THEN [raised |-> E_IndexY, locals |-> l1]
            ELSE LET ds_point == isel(ds, i, j)
                     corrected ==
                        IF wrap_lon
                        THEN [ds_point EXCEPT
                                !.lon = CorrectLon(@, locals.applied_lon_offset)]
                        ELSE ds_point
                 IN  [raised |-> "", locals |-> [ds_point |-> corrected] @@ l1]
        : idx_nearest \in Query(locals.lookup_info.tree,
                                <<locals.lon_wrapped, locals.lat>>) }

\* lines 117-130, then the rest of the call
CheckBounds(ds, wrap_lon, locals) ==
    LET b == locals.lookup_info.latlon_bounds
        w == wrap_lon_fn(locals.lon, b.lon)
        l1 == IF wrap_lon /\ w.pc = "return"
              THEN [lon_wrapped |-> w.lon,
                    applied_lon_offset |-> w.applied_rotation] @@ locals
              ELSE locals
    IN  IF wrap_lon /\ w.pc = "raise"
        THEN { [raised |-> IF w.applied_rotation < 0 THEN E_WrapUp ELSE E_WrapDown,
                locals |-> locals] }
        ELSE IF ~wrap_lon /\ LonOutside(locals.lon, b.lon)
        THEN { [raised |-> E_Lon, locals |-> locals] }
        ELSE IF LatOutside(locals.lat, b.lat)
        THEN { [raised |-> E_Lat, locals |-> l1] }
        ELSE QueryAndSlice(ds, wrap_lon, l1)

NoCacheUse ==
    [memChecked |-> FALSE, memHit |-> FALSE, pickleChecked |-> FALSE,
     pickleLoaded |-> FALSE, built |-> FALSE, pickleWritten |-> FALSE]

\* the whole call: every way it can end, with the caches it leaves behind
sel_nearest_to_latlon_pt(ds, pt, wrap_lon, mem, files) ==
    LET args == [pc |-> "done", ds |-> ds, pt |-> pt, wrap_lon |-> wrap_lon]
        entry == EntryError(ds, pt)
    IN  IF entry # ""
        THEN { [call |-> args @@ NoCacheUse @@ [raised |-> entry, locals |-> << >>],
                mem |-> mem, files |-> files] }
        ELSE LET identifier == ds.attrs.suite_name
                 g == GetLookupInfo(identifier, ds, mem, files)
                 use == [memChecked |-> TRUE, memHit |-> g.memHit,
                         pickleChecked |-> g.pickleChecked,
                         pickleLoaded |-> g.pickleLoaded, built |-> g.built,
                         pickleWritten |-> g.pickleWritten]
                 locals == [identifier |-> identifier,
                            lon |-> pt.items.lon, lat |-> pt.items.lat,
                            lookup_info |-> g.lookup_info]
             IN  { [call |-> args @@ use @@ r, mem |-> g.mem, files |-> g.files]
                   : r \in CheckBounds(ds, wrap_lon, locals) }

----------------------------------------------------------------------------
(* The callers *)

\* longitudes and latitudes asked for
BaseLons == {-11, -10, -5, 0, 10, 11}

QueryLons == { c + FullTurn * k : c \in BaseLons, k \in -MaxWraps .. MaxWraps }

QueryLats == {-1, 0, 4, 5, 10, 11}

PtKeys == {"lon", "lat", "alt"}

\* the pt arguments: dicts over every set of the keys, and a tuple
Points ==
    { [kind |-> "dict",
       items |-> [k \in K |-> IF k = "lon" THEN lon ELSE IF k = "lat" THEN lat ELSE 0]]
      : K \in SUBSET PtKeys, lon \in QueryLons, lat \in QueryLats }
    \cup { [kind |-> "tuple", items |-> <<355, 5>>] }

Init ==
    /\ LOOKUP_INFO = << >>
    /\ pickles = << >>
    /\ call = NoCall
    /\ wl = NoFrame
    /\ th = NoThreads

\* a caller runs sel_nearest_to_latlon_pt to its end
Call ==
    /\ call.pc = "idle"
    /\ \E ds \in Datasets, pt \in Points, wrap_lon \in BOOLEAN :
         \E out \in sel_nearest_to_latlon_pt(ds, pt, wrap_lon, LOOKUP_INFO, pickles) :
            /\ call' = out.call
            /\ LOOKUP_INFO' = out.mem
            /\ pickles' = out.files
    /\ UNCHANGED <<wl, th>>

\* the caller takes the result or the exception and goes on
Return ==
    /\ call.pc = "done"
    /\ call' = NoCall
    /\ UNCHANGED <<LOOKUP_INFO, pickles, wl, th>>

\* the process ends and a new one imports the module: line 8 empties
\* LOOKUP_INFO, the pickle files stay
Restart ==
    /\ call.pc = "idle"
    /\ LOOKUP_INFO # << >>
    /\ LOOKUP_INFO' = << >>
    /\ UNCHANGED <<pickles, call, wl, th>>

Next == Call \/ Return \/ Restart

Spec == Init /\ [][Next]_vars

----------------------------------------------------------------------------
(* Two threads in sel_nearest_to_latlon_pt: no lock guards lines 108-112 *)
(* or the file of lines 21-28, so the threads interleave between them    *)

Threads == {1, 2}

\* the pickle file between open(fp_pickle, "wb") and the end of the dump:
\* it exists and pickle.load cannot read it
PartialFile == [partial |-> TRUE]

Unloadable(content) == "tree" \notin DOMAIN content

E_Load == "EOFError@23"

\* both threads ask with suite_name "A"
ConcDatasets == { ds \in Datasets : "suite_name" \in DOMAIN ds.attrs /\ ds.attrs.suite_name = "A" }

ConcPoints ==
    { [kind |-> "dict", items |-> [lon |-> p[1], lat |-> p[2]]]
      : p \in {<<-10, 0>>, <<355, 5>>, <<0, 11>>} }

StartFrames ==
    { [pc |-> "enter", ds |-> ds, pt |-> pt, wrap_lon |-> w,
       built |-> FALSE, raised |-> "", locals |-> << >>]
      : ds \in ConcDatasets, pt \in ConcPoints, w \in BOOLEAN }

InitConc ==
    /\ LOOKUP_INFO = << >>
    /\ pickles = << >>
    /\ call = NoCall
    /\ wl = NoFrame
    /\ th \in { [frames |-> f, stores |-> << >>] : f \in [Threads -> StartFrames] }

\* thread t goes from pc `from` to the frame `frame`
Goes(t, from, frame) ==
    /\ th.frames[t].pc = from
    /\ th' = [th EXCEPT !.frames[t] = frame]

\* lines 88-95
T_Enter(t) ==
    LET f == th.frames[t]
        entry == EntryError(f.ds, f.pt)
    IN  /\ Goes(t, "enter",
                IF entry # ""
                THEN [f EXCEPT !.pc = "done", !.raised = entry]
                ELSE [f EXCEPT !.pc = "memcheck",
                               !.locals = [identifier |-> f.ds.attrs.suite_name,
                                           lon |-> f.pt.items.lon,
                                           lat |-> f.pt.items.lat]])
        /\ UNCHANGED <<LOOKUP_INFO, pickles, call, wl>>

\* lines 108-109: identifier in LOOKUP_INFO
T_MemCheck(t) ==
    LET f == th.frames[t]
        id == f.locals.identifier
    IN  /\ th.frames[t].pc = "memcheck"
        /\ Goes(t, "memcheck",
                IF id \in DOMAIN LOOKUP_INFO
                THEN [f EXCEPT !.pc = "bounds",
                               !.locals = [lookup_info |-> LOOKUP_INFO[id]] @@ @]
                ELSE [f EXCEPT !.pc = "exists"])
        /\ UNCHANGED <<LOOKUP_INFO, pickles, call, wl>>

\* line 21: fp_pickle.exists()
T_Exists(t) ==
    LET f == th.frames[t]
    IN  /\ th.frames[t].pc = "exists"
        /\ Goes(t, "exists",
                IF f.locals.identifier \in DOMAIN pickles
                THEN [f EXCEPT !.pc = "load"]
                ELSE [f EXCEPT !.pc = "build"])
        /\ UNCHANGED <<LOOKUP_INFO, pickles, call, wl>>

\* lines 22-23: pickle.load of what the file holds now
T_Load(t) ==
    LET f == th.frames[t]
        content == pickles[f.locals.identifier]
    IN  /\ th.frames[t].pc = "load"
        /\ Goes(t, "load",
                IF Unloadable(content)
                THEN [f EXCEPT !.pc = "done", !.raised = E_Load]
                ELSE [f EXCEPT !.pc = "store",
                               !.locals = [lookup_info |-> content] @@ @])
        /\ UNCHANGED <<LOOKUP_INFO, pickles, call, wl>>

\* line 25: result = func(), the build_tree of this call's ds
T_Build(t) ==
    LET f == th.frames[t]
    IN  /\ th.frames[t].pc = "build"
        /\ Goes(t, "build",
                [f EXCEPT !.pc = "open", !.built = TRUE,
                          !.locals = [lookup_info |-> build_tree(f.ds)] @@ @])
        /\ UNCHANGED <<LOOKUP_INFO, pickles, call, wl>>

\* line 27: open(fp_pickle, "wb") creates or empties the file
T_Open(t) ==
    LET f == th.frames[t]
    IN  /\ th.frames[t].pc = "open"
        /\ Goes(t, "open", [f EXCEPT !.pc = "dump"])
        /\ pickles' = DictSet(pickles, f.locals.identifier, PartialFile)
        /\ UNCHANGED <<LOOKUP_INFO, call, wl>>

\* line 28 and the end of the with block: the dump; while another thread
\* has the file open for its own, different dump the bytes may mix
T_Dump(t) ==
    LET f == th.frames[t]
        mixing == \E u \in Threads \ {t} :
                     /\ th.frames[u].pc = "dump"
                     /\ th.frames[u].locals.lookup_info # f.locals.lookup_info
    IN  /\ th.frames[t].pc = "dump"
        /\ Goes(t, "dump", [f EXCEPT !.pc = "store"])
        /\ \E content \in {f.locals.lookup_info}
                            \cup (IF mixing THEN {PartialFile} ELSE {}) :
              pickles' = DictSet(pickles, f.locals.identifier, content)
        /\ UNCHANGED <<LOOKUP_INFO, call, wl>>

\* line 112: LOOKUP_INFO[identifier] = lookup_info
T_Store(t) ==
    LET f == th.frames[t]
    IN  /\ th.frames[t].pc = "store"
        /\ th' = [th EXCEPT !.frames[t] = [f EXCEPT !.pc = "bounds"],
                            !.stores = Append(@, t)]
        /\ LOOKUP_INFO' = MemStore(LOOKUP_INFO, f.locals.identifier,
                                   f.locals.lookup_info)
        /\ UNCHANGED <<pickles, call, wl>>

\* lines 114-142: the rest of the call works on its own lookup_info
T_Finish(t) ==
    LET f == th.frames[t]
    IN  /\ th.frames[t].pc = "bounds"
        /\ \E r \in CheckBounds(f.ds, f.wrap_lon, f.locals) :
              Goes(t, "bounds",
                   [f EXCEPT !.pc = "done", !.raised = r.raised, !.locals = r.locals])
        /\ UNCHANGED <<LOOKUP_INFO, pickles, call, wl>>

NextConc ==
    \E t \in Threads :
        \/ T_Enter(t)
        \/ T_MemCheck(t)
        \/ T_Exists(t)
        \/ T_Load(t)
        \/ T_Build(t)
        \/ T_Open(t)
        \/ T_Dump(t)
        \/ T_Store(t)
        \/ T_Finish(t)

SpecConc == InitConc /\ [][NextConc]_vars

----------------------------------------------------------------------------
(* Properties of _wrap_lon *)

Span(f) == f.lon_bounds[2] - f.lon_bounds[1]

WithinBounds(v, lon_bounds) == lon_bounds[1] <= v /\ v <= lon_bounds[2]

\* some lon + 360k lies within the bounds
Placeable(lon, lon_bounds) ==
    \E w \in lon_bounds[1] .. lon_bounds[2] : (w - lon) % FullTurn = 0

C9_OffsetUndoesWrap ==
    /\ wl.pc = "return" =>
          /\ wl.applied_rotation % FullTurn = 0
          /\ wl.lon - wl.applied_rotation = wl.lon0
    /\ WithinBounds(wl.lon0, wl.lon_bounds) =>
          /\ wl.iters = 0
          /\ wl.pc # "raise"
          /\ wl.applied_rotation = 0
          /\ wl.lon = wl.lon0

\* C9 witness: a return after two downward corrections
C9_Witness ==
    /\ wl.pc = "return"
    /\ wl.applied_rotation = -(2 * FullTurn)
    /\ wl.lon0 > wl.lon_bounds[2]

\* C10: for bounds spanning less than 360, _wrap_lon always terminates; it
\* raises exactly when no lon + 360k lies within the bounds, and returns (a
\* value within the bounds) exactly when some lon + 360k does.
C10_NarrowBoundsFailIffUnplaceable ==
    /\ [](Span(wl) < FullTurn =>
            /\ wl.pc = "raise" => ~Placeable(wl.lon0, wl.lon_bounds)
            /\ wl.pc = "return" =>
                  /\ Placeable(wl.lon0, wl.lon_bounds)
                  /\ WithinBounds(wl.lon, wl.lon_bounds))
    /\ (Span(wl) < FullTurn) ~> (wl.pc \in {"raise", "return"})

\* C10 witness: an input below lon_min that was rotated up past lon_max
\* and then refused
C10_Witness ==
    /\ Span(wl) < FullTurn
    /\ wl.pc = "raise"
    /\ wl.lon0 < wl.lon_bounds[1]
    /\ wl.applied_rotation > 0

----------------------------------------------------------------------------
(* Properties of sel_nearest_to_latlon_pt *)

Done == call.pc = "done"

HasSuiteName(ds) == "suite_name" \in DOMAIN ds.attrs

OutOfBoundsErrors == {E_WrapUp, E_WrapDown, E_Lon, E_Lat}

PtErrors == {E_PtNotDict, E_KeyLon, E_KeyLat}

Returned == Done /\ call.raised = ""

GridCells(ds) == { <<x, y>> : x \in DOMAIN ds.lon, y \in DOMAIN ds.lon[0] }

\* the cells of the grid whose (lon, lat) is nearest to q
NearestCells(ds, q) ==
    { c \in GridCells(ds) :
        \A d \in GridCells(ds) :
            Dist2(<<ds.lon[c[1]][c[2]], ds.lat[c[1]][c[2]]>>, q)
              <= Dist2(<<ds.lon[d[1]][d[2]], ds.lat[d[1]][d[2]]>>, q) }

\* C1: on a grid of shape (nx, ny) over (x, y), with the index built from
\* this grid and a point whose wrapped lon and lat lie within the bounds,
\* the call returns, and what it returns is the slice at a cell nearest to
\* the (wrapped lon, lat) point.
C1_NearestCellReturned ==
    (/\ Done
     /\ call.wrap_lon
     /\ call.memChecked
     /\ call.locals.lookup_info = build_tree(call.ds)
     /\ "lon_wrapped" \in DOMAIN call.locals
     /\ WithinBounds(call.locals.lat, call.locals.lookup_info.latlon_bounds.lat))
    => /\ call.raised = ""
       /\ \E c \in NearestCells(call.ds, <<call.locals.lon_wrapped, call.locals.lat>>) :
            /\ call.locals.ds_point.lat = call.ds.lat[c[1]][c[2]]
            /\ call.locals.ds_point.t2m = call.ds.t2m[c[1]][c[2]]
            /\ call.locals.ds_point.lon
                 = call.ds.lon[c[1]][c[2]] - call.locals.applied_lon_offset

\* C2: with wrap_lon false and raw lon and lat within the cached bounds the
\* call does not fail and returns a slice whose longitude is the cell's own.
C2_RawLonQueried ==
    (/\ Done
     /\ ~call.wrap_lon
     /\ call.memChecked
     /\ WithinBounds(call.locals.lon, call.locals.lookup_info.latlon_bounds.lon)
     /\ WithinBounds(call.locals.lat, call.locals.lookup_info.latlon_bounds.lat))
    => /\ call.raised = ""
       /\ call.locals.ds_point.lon
            = call.ds.lon[call.locals.i][call.locals.j]

PtExact(pt) == pt.kind = "dict" /\ DOMAIN pt.items = {"lon", "lat"}

\* C3 as stated: every pt that is not a dict with exactly the keys lon and
\* lat fails with the one error of line 93, before the caches are looked at.
C3_ExactKeysRequired ==
    (Done /\ HasSuiteName(call.ds) /\ ~PtExact(call.pt))
    => (call.raised = E_PtNotDict /\ ~call.memChecked)

\* C3 amended: a pt that is no dict fails with the TypeError of line 93, a
\* dict without lon or without lat fails with the KeyError of line 95, and
\* neither reaches the caches, the bounds checks or the query; a dict with
\* lon and lat is accepted whatever other keys it has.
C3_PtValidation ==
    (Done /\ HasSuiteName(call.ds))
    => /\ call.pt.kind # "dict" => call.raised = E_PtNotDict
       /\ (call.pt.kind = "dict" /\ "lon" \notin DOMAIN call.pt.items)
            => call.raised = E_KeyLon
       /\ (call.pt.kind = "dict" /\ "lon" \in DOMAIN call.pt.items
             /\ "lat" \notin DOMAIN call.pt.items)
            => call.raised = E_KeyLat
       /\ call.raised \in PtErrors
            => (~call.memChecked /\ ~call.built /\ call.locals = << >>)
       /\ (call.pt.kind = "dict" /\ {"lon", "lat"} \subseteq DOMAIN call.pt.items)
            => (call.raised \notin PtErrors /\ call.memChecked)

\* C3 witness: a dict with an additional key got a slice back
C3_Witness ==
    /\ Returned
    /\ DOMAIN call.pt.items = {"lon", "lat", "alt"}

\* C4: a call on a dataset without suite_name ends with the error of line
\* 90 whatever pt and wrap_lon are, and it neither looks at nor changes
\* LOOKUP_INFO or the pickle files, nor builds an index.
C4_MissingIdentifierFirst ==
    [][(call.pc = "idle" /\ call'.pc = "done" /\ ~HasSuiteName(call'.ds))
        => /\ call'.raised = E_NoSuiteName
           /\ ~call'.memChecked /\ ~call'.memHit
           /\ ~call'.pickleChecked /\ ~call'.pickleLoaded
           /\ ~call'.built /\ ~call'.pickleWritten
           /\ LOOKUP_INFO' = LOOKUP_INFO
           /\ pickles' = pickles]_vars

\* C4 witness: no suite_name and a pt that is no dict
C4_Witness ==
    /\ Done
    /\ ~HasSuiteName(call.ds)
    /\ call.pt.kind = "tuple"
    /\ call.raised = E_NoSuiteName

\* C5: once the cached bounds are at hand, a latitude outside them fails
\* with an out-of-bounds error in either wrap mode, and so does a longitude
\* outside them when wrap_lon is false; a slice is returned only for a
\* point within the bounds; a point on a bound is not refused.
C5_OutOfBoundsRefused ==
    (Done /\ call.memChecked)
    => LET b == call.locals.lookup_info.latlon_bounds
           lon == call.locals.lon
           lat == call.locals.lat
       IN  /\ (lat < b.lat[1] \/ lat > b.lat[2])
                => call.raised \in OutOfBoundsErrors
           /\ (~call.wrap_lon /\ (lon < b.lon[1] \/ lon > b.lon[2]))
                => call.raised \in OutOfBoundsErrors
           /\ call.raised = ""
                => /\ WithinBounds(lat, b.lat)
                   /\ WithinBounds(call.locals.lon_wrapped, b.lon)
           /\ (/\ WithinBounds(lat, b.lat)
               /\ IF call.wrap_lon THEN Placeable(lon, b.lon)
                                   ELSE WithinBounds(lon, b.lon))
                => call.raised \notin OutOfBoundsErrors

\* C5 witness: the longitude was wrapped into the bounds and the latitude,
\* one above its bound, was refused
C5_Witness ==
    /\ Done
    /\ call.wrap_lon
    /\ call.raised = E_Lat
    /\ call.locals.applied_lon_offset # 0
    /\ call.locals.lat = call.locals.lookup_info.latlon_bounds.lat[2] + 1

\* C6: with wrap_lon true the longitude of the returned slice is the
\* selected cell's longitude minus the offset _wrap_lon applied (for bounds
\* (-10, 10) and lon 355: wrapped to -5, offset -360, the cell's longitude
\* plus 360); offset 0 leaves it as it is; lat and the data are the cell's.
C6_LonCorrectedByOffset ==
    (Returned /\ call.wrap_lon)
    => LET l == call.locals
           cell == isel(call.ds, l.i, l.j)
       IN  /\ l.lon_wrapped - l.applied_lon_offset = l.lon
           /\ l.ds_point.lon = cell.lon - l.applied_lon_offset
           /\ l.applied_lon_offset = 0 => l.ds_point.lon = cell.lon
           /\ l.ds_point.lat = cell.lat
           /\ l.ds_point.t2m = cell.t2m
           /\ (l.lookup_info.latlon_bounds.lon = <<-10, 10>> /\ l.lon = 355)
                => /\ l.lon_wrapped = -5
                   /\ l.applied_lon_offset = -360
                   /\ l.ds_point.lon = cell.lon + 360

\* C6 witness: the scenario, bounds (-10, 10) and query longitude 355
C6_Witness ==
    /\ Returned
    /\ call.wrap_lon
    /\ call.locals.lookup_info.latlon_bounds.lon = <<-10, 10>>
    /\ call.locals.lon = 355

\* C7: a call that gets as far as the caches looks in LOOKUP_INFO first; on
\* a hit it neither looks at the pickle file nor builds; on a miss it looks
\* at the pickle file and loads it without building if it is there; only
\* when both miss it builds, writes the pickle file and, as after a load,
\* stores the entry in LOOKUP_INFO; entries stay in LOOKUP_INFO for the
\* life of the process, so every later call is a hit.
C7_CacheLookupOrder ==
    [][/\ (call.pc = "idle" /\ call'.pc = "done" /\ call'.memChecked)
          => LET id == call'.ds.attrs.suite_name
                 used == call'.locals.lookup_info
             IN  /\ id \in DOMAIN LOOKUP_INFO
                      => /\ call'.memHit
                         /\ ~call'.pickleChecked /\ ~call'.pickleLoaded
                         /\ ~call'.built /\ ~call'.pickleWritten
                         /\ used = LOOKUP_INFO[id]
                         /\ pickles' = pickles
                 /\ (id \notin DOMAIN LOOKUP_INFO /\ id \in DOMAIN pickles)
                      => /\ ~call'.memHit
                         /\ call'.pickleChecked /\ call'.pickleLoaded
                         /\ ~call'.built /\ ~call'.pickleWritten
                         /\ used = pickles[id]
                         /\ pickles' = pickles
                 /\ (id \notin DOMAIN LOOKUP_INFO /\ id \notin DOMAIN pickles)
                      => /\ ~call'.memHit
                         /\ call'.pickleChecked /\ ~call'.pickleLoaded
                         /\ call'.built /\ call'.pickleWritten
                         /\ used = build_tree(call'.ds)
                         /\ id \in DOMAIN pickles' /\ pickles'[id] = used
                 /\ id \in DOMAIN LOOKUP_INFO' /\ LOOKUP_INFO'[id] = used
       /\ (call' # call)
          => \A id \in DOMAIN LOOKUP_INFO :
                id \in DOMAIN LOOKUP_INFO' /\ LOOKUP_INFO'[id] = LOOKUP_INFO[id]]_vars

\* C7 witness: a call served from LOOKUP_INFO
C7_Witness ==
    /\ Done
    /\ call.memHit
    /\ ~call.pickleChecked

----------------------------------------------------------------------------
(* The index inversion against the flattening *)

\* C11: on a grid of shape (nx, ny) over (x, y) whose index was built from
\* it, the pair i = k mod ny, j = k div ny taken for flat index k is within
\* range (i < nx, j < ny) and the cell (x=i, y=j) is the one whose
\* (lon, lat) sits at position k of the flattened points.
C11_InversionMatchesFlattening ==
    (/\ Done
     /\ call.memChecked
     /\ "idx_nearest" \in DOMAIN call.locals
     /\ call.locals.lookup_info = build_tree(call.ds))
    => LET l == call.locals
       IN  /\ l.i < l.nx
           /\ l.j < l.ny
           /\ <<call.ds.lon[l.i][l.j], call.ds.lat[l.i][l.j]>>
                = l.lookup_info.tree[l.idx_nearest]

----------------------------------------------------------------------------
(* _wrap_lon on bounds of exactly one full turn *)

\* C12 as stated: with lon_max - lon_min = 360 the loop body runs at most
\* once, and the offset is one of -360, 0, 360, for every input longitude.
C12_OneStepForAnyInput ==
    Span(wl) = FullTurn
    => /\ wl.iters <= 1
       /\ wl.applied_rotation \in {-FullTurn, 0, FullTurn}

\* C12 amended: with lon_max - lon_min = 360, _wrap_lon never raises and
\* its steps all go one way (the offset is 360 times the number of steps,
\* up or down); for an input no more than 360 outside the bounds the loop
\* body runs at most once and the offset is one of -360, 0, 360.
C12_OneStepWithinOneTurn ==
    Span(wl) = FullTurn
    => /\ wl.pc # "raise"
       /\ wl.applied_rotation \in {-(FullTurn * wl.iters), FullTurn * wl.iters}
       /\ WithinBounds(wl.lon0, <<wl.lon_bounds[1] - FullTurn,
                                  wl.lon_bounds[2] + FullTurn>>)
            => /\ wl.iters <= 1
               /\ wl.applied_rotation \in {-FullTurn, 0, FullTurn}

\* C12 witness: an input exactly 360 above lon_max, returned after one step
C12_Witness ==
    /\ Span(wl) = FullTurn
    /\ wl.pc = "return"
    /\ wl.lon0 = wl.lon_bounds[2] + FullTurn
    /\ wl.iters = 1
    /\ wl.applied_rotation = -FullTurn

----------------------------------------------------------------------------
(* Failing calls and the caches *)

EntryErrors == {E_NoSuiteName} \cup PtErrors

\* a step that is a whole call
CallStep == call.pc = "idle" /\ call'.pc = "done"

\* C13 as stated: a call that fails for a missing identifier, a malformed
\* pt or an out-of-bounds point leaves LOOKUP_INFO and the pickle files as
\* they were and builds nothing.
C13_FailingCallsTouchNothing ==
    [][(CallStep /\ call'.raised \in EntryErrors \cup OutOfBoundsErrors)
        => /\ LOOKUP_INFO' = LOOKUP_INFO
           /\ pickles' = pickles
           /\ ~call'.built]_vars

\* C13 amended: a call failing for a missing identifier or a malformed pt
\* leaves both caches as they were and builds nothing; a call failing for
\* an out-of-bounds point has done the lookup of lines 108-112 first: it
\* changes no entry that was there, and an identifier that was not in
\* LOOKUP_INFO now is, with the entry loaded from its pickle file or, when
\* there was none, built from ds and written to the pickle file.
C13_OnlyEntryFailuresTouchNothing ==
    [][/\ (CallStep /\ call'.raised \in EntryErrors)
          => /\ LOOKUP_INFO' = LOOKUP_INFO
             /\ pickles' = pickles
             /\ ~call'.built /\ ~call'.pickleWritten
       /\ (CallStep /\ call'.raised \in OutOfBoundsErrors)
          => LET id == call'.ds.attrs.suite_name
             IN  /\ \A k \in DOMAIN LOOKUP_INFO :
                       k \in DOMAIN LOOKUP_INFO' /\ LOOKUP_INFO'[k] = LOOKUP_INFO[k]
                 /\ \A k \in DOMAIN pickles :
                       k \in DOMAIN pickles' /\ pickles'[k] = pickles[k]
                 /\ DOMAIN LOOKUP_INFO' = DOMAIN LOOKUP_INFO \cup {id}
                 /\ DOMAIN pickles' = DOMAIN pickles \cup {id}
                 /\ LOOKUP_INFO'[id] = pickles'[id]
                 /\ call'.built = (id \notin DOMAIN LOOKUP_INFO /\ id \notin DOMAIN pickles)
                 /\ call'.built => LOOKUP_INFO'[id] = build_tree(call'.ds)]_vars

\* C13 witness: a first call for an identifier that built the index, wrote
\* both caches and then failed on the latitude
C13_Witness ==
    /\ Done
    /\ call.raised = E_Lat
    /\ call.built
    /\ call.pickleWritten
    /\ call.locals.identifier \in DOMAIN LOOKUP_INFO

----------------------------------------------------------------------------
(* A changed grid under a cached identifier *)

\* the entry the caches hold for id: LOOKUP_INFO first, then the pickle file
Cached(id) == IF id \in DOMAIN LOOKUP_INFO THEN LOOKUP_INFO[id] ELSE pickles[id]

\* C14 as stated, for a cached index whose answer is no position of the
\* new grid: a later call with a cached identifier and a dataset of another
\* grid does not rebuild and, for a point within the cached bounds,
\* completes without an error.
C14_StaleCallCompletes ==
    (/\ Done
     /\ call.wrap_lon
     /\ call.memChecked
     /\ ~call.built
     /\ call.locals.lookup_info # build_tree(call.ds)
     /\ "idx_nearest" \in DOMAIN call.locals
     /\ call.locals.idx_nearest >= call.locals.nx * call.locals.ny)
    => call.raised = ""

\* C14 amended: once an entry is cached for an identifier, in LOOKUP_INFO
\* or as a pickle file, a later call with that identifier never rebuilds
\* and never replaces it, whatever lon/lat arrays and shape its dataset
\* has; its bounds checks use the cached bounds and its query the cached
\* index; no error is raised for the mismatch: the call returns the slice
\* of the new dataset at the position derived from the cached index, or
\* fails with one of the call's ordinary errors.
C14_NoInvalidation ==
    [][(/\ CallStep
        /\ call'.memChecked
        /\ \/ call'.ds.attrs.suite_name \in DOMAIN LOOKUP_INFO
           \/ call'.ds.attrs.suite_name \in DOMAIN pickles)
        => LET id == call'.ds.attrs.suite_name
               l == call'.locals
               b == Cached(id).latlon_bounds
           IN  /\ ~call'.built /\ ~call'.pickleWritten
               /\ l.lookup_info = Cached(id)
               /\ LOOKUP_INFO'[id] = Cached(id)
               /\ pickles' = pickles
               /\ call'.raised \in OutOfBoundsErrors
                    <=> \/ LatOutside(l.lat, b.lat)
                        \/ IF call'.wrap_lon THEN ~Placeable(l.lon, b.lon)
                                             ELSE LonOutside(l.lon, b.lon)
               /\ "idx_nearest" \in DOMAIN l
                    => l.idx_nearest \in Query(Cached(id).tree, <<l.lon_wrapped, l.lat>>)
               /\ call'.raised = ""
                    => /\ l.ds_point.lat = call'.ds.lat[l.i][l.j]
                       /\ l.ds_point.t2m = call'.ds.t2m[l.i][l.j]
               /\ call'.raised \in
                    OutOfBoundsErrors \cup {"", E_Unbound, E_IndexX, E_IndexY}]_vars

\* C14 witness: a call served from LOOKUP_INFO with the index of another
\* grid returned a slice
C14_Witness ==
    /\ Returned
    /\ call.memHit
    /\ Shape(call.ds.lon) = <<1, 1>>
    /\ call.locals.lookup_info # build_tree(call.ds)

----------------------------------------------------------------------------
(* The race of two first calls *)

Frame(t) == th.frames[t]

Complete(entry) == DOMAIN entry = {"tree", "latlon_bounds"}

BothBuilt == \A t \in Threads : Frame(t).built

AllDone == \A t \in Threads : Frame(t).pc = "done"

\* C15: two threads making their first call with the same identifier on
\* empty caches can both miss and both build. A thread that has built works
\* on its own complete {tree, latlon_bounds}, the build_tree of its ds, and
\* ends with a result computed from it; LOOKUP_INFO holds what the last
\* thread to write stored; when both have built, both have written.
C15_RaceBuildsTwiceLastWriteWins ==
    /\ \A t \in Threads :
          (Frame(t).built /\ "lookup_info" \in DOMAIN Frame(t).locals)
          => /\ Complete(Frame(t).locals.lookup_info)
             /\ Frame(t).locals.lookup_info = build_tree(Frame(t).ds)
    /\ \A t \in Threads :
          (Frame(t).built /\ Frame(t).pc = "done")
          => /\ Frame(t).raised # E_Load
             /\ "idx_nearest" \in DOMAIN Frame(t).locals
                  => Frame(t).locals.idx_nearest
                       \in Query(build_tree(Frame(t).ds).tree,
                                 <<Frame(t).locals.lon_wrapped, Frame(t).locals.lat>>)
    /\ th.stores # << >>
          => /\ "A" \in DOMAIN LOOKUP_INFO
             /\ Complete(LOOKUP_INFO["A"])
             /\ LOOKUP_INFO["A"]
                  = Frame(th.stores[Len(th.stores)]).locals.lookup_info
    /\ (BothBuilt /\ AllDone) => Len(th.stores) = 2

\* C15 witness: both threads missed and built, from different grids; both
\* returned a slice; LOOKUP_INFO holds the second writer's entry and not
\* the first writer's
C15_Witness ==
    /\ BothBuilt
    /\ AllDone
    /\ \A t \in Threads : Frame(t).raised = ""
    /\ Len(th.stores) = 2
    /\ LOOKUP_INFO["A"] = build_tree(Frame(th.stores[2]).ds)
    /\ LOOKUP_INFO["A"] # build_tree(Frame(th.stores[1]).ds)

====
